---- MODULE Spec2Model ----
(***************************************************************************)
(* Model of CustomOpenAIClient.createChatCompletion                        *)
(* (src/llm_clients/customOpenAI_client.ts): message normalization,        *)
(* request building, dispatch, schema validation and bounded retry.        *)
(*                                                                         *)
(* JavaScript values are encoded as follows.                               *)
(*   - an optional value (undefined / null / a missing property) is a      *)
(*     sequence of length 0, a present value v is <<v>>;                   *)
(*   - a message content is [kind, str, parts]: kind "string" uses str,    *)
(*     kind "array" uses parts;                                            *)
(*   - the image attachment is [kind, str, url, buffer] with kind one of   *)
(*     "undefined", "string", "number", "object";                          *)
(*   - an Error is [name, message].                                        *)
(***************************************************************************)
EXTENDS Integers, Sequences, FiniteSets, TLC

VARIABLES
    options,    \* the caller's options argument (messages, image, response_model, ...)
    retriesArg, \* the retries argument of the caller's call: <<>> when not passed
    retries,    \* the retries parameter of the innermost createChatCompletion frame
    pc,         \* "start": called, not yet run; "awaiting": suspended at the await; "done"
    sent,       \* bodies passed to client.chat.completions.create, in order
    received,   \* responses the provider resolved with, in order
    rejected,   \* <<>> or <<e>>: what the transport rejected the last dispatch with
    log,        \* records handed to the logger, in order
    outcome,    \* what the caller's promise settled with
    events,     \* logger calls, create calls and the final return or throw, in order
    sink,       \* the caller's logger: the records on which it throws
    solver,     \* solveCaptchaAutomatically: its position, caught error, prompts, result
    peer,       \* a second createChatCompletion call running on the same client
    monitor     \* monitorCourseAvailability: its position and what the iteration did

vars == <<options, retriesArg, retries, pc, sent, received, rejected, log, outcome,
          events, sink, solver, peer, monitor>>

(***************************************************************************)
(* Bounds of the model.                                                    *)
(***************************************************************************)
MaxRetries == 2
MaxParts == 2
MaxMessages == 2

(***************************************************************************)
(* Small helpers over sequences.                                           *)
(***************************************************************************)
RECURSIVE SeqsUpTo(_, _)
SeqsUpTo(S, n) ==
    IF n = 0 THEN {<<>>}
    ELSE LET shorter == SeqsUpTo(S, n - 1)
         IN  shorter \cup {Append(s, x) : s \in {t \in shorter : Len(t) = n - 1}, x \in S}

MapSeq(f(_), s) == [i \in 1..Len(s) |-> f(s[i])]

Last(s) == s[Len(s)]

(***************************************************************************)
(* Message normalizer: options.messages.map(...)                           *)
(***************************************************************************)
modelName == "gpt-4o"

Roles == {"system", "user", "assistant"}

\* faulty variant of imageContent: the url is not nested under image_url
imageContentFlat(url) == [type |-> "image_url", image_url |-> <<>>, text |-> <<url>>]

\* a content part produced by the normalizer
imageContent(url) == [type |-> "image_url", image_url |-> <<[url |-> url]>>, text |-> <<>>]
textContent(text) == [type |-> "text", image_url |-> <<>>, text |-> <<text>>]
fallbackContent == [type |-> "text", image_url |-> <<>>, text |-> <<"">>]

\* JavaScript truthiness of an optional string property
TruthyString(opt) == IF opt = <<>> THEN FALSE ELSE opt[1] # ""

\* the callback of message.content.map
contentPart(content) ==
    IF content.image_url # <<>>
    THEN imageContent(content.image_url[1].url)
    ELSE IF TruthyString(content.text)
         THEN textContent(content.text[1])
         ELSE fallbackContent

\* faulty variant of contentParts: parts of neither known shape are dropped
contentPartsDropping(message) ==
    SelectSeq(MapSeq(contentPart, message.content.parts),
              LAMBDA content : content # fallbackContent)

contentParts(message) == MapSeq(contentPart, message.content.parts)

\* faulty variant of FilterText: image parts are not filtered out
FilterTextKeepAll(parts) == parts

\* contentParts.filter(content => content.type === "text")
FilterText(parts) == SelectSeq(parts, LAMBDA content : content.type = "text")

ArrayContent(parts) == [kind |-> "array", str |-> "", parts |-> parts]
StringContent(str) == [kind |-> "string", str |-> str, parts |-> <<>>]

\* Buffer.from(buffer).toString('base64')
B64Chars ==
    << "A","B","C","D","E","F","G","H","I","J","K","L","M","N","O","P",
       "Q","R","S","T","U","V","W","X","Y","Z","a","b","c","d","e","f",
       "g","h","i","j","k","l","m","n","o","p","q","r","s","t","u","v",
       "w","x","y","z","0","1","2","3","4","5","6","7","8","9","+","/" >>

B64(n) == B64Chars[(n % 64) + 1]

RECURSIVE Base64(_)
Base64(bytes) ==
    IF Len(bytes) = 0 THEN ""
    ELSE IF Len(bytes) = 1
         THEN LET n == bytes[1] * 65536
              IN  B64(n \div 262144) \o B64(n \div 4096) \o "=="
    ELSE IF Len(bytes) = 2
         THEN LET n == bytes[1] * 65536 + bytes[2] * 256
              IN  B64(n \div 262144) \o B64(n \div 4096) \o B64(n \div 64) \o "="
    ELSE LET n == bytes[1] * 65536 + bytes[2] * 256 + bytes[3]
         IN  B64(n \div 262144) \o B64(n \div 4096) \o B64(n \div 64) \o B64(n)
             \o Base64(SubSeq(bytes, 4, Len(bytes)))

\* JavaScript truthiness of the image option
TruthyImage(image) ==
    \/ image.kind = "object"
    \/ image.kind = "number"
    \/ image.kind = "string" /\ image.str # ""

\* faulty variant of imageUrl: an attachment object is used unresolved
imageUrlStringOnly(image) ==
    IF image.kind = "string" THEN <<image.str>>
    ELSE IF image.kind = "object" /\ (image.url # <<>> \/ image.buffer # <<>>)
         THEN <<"[object Object]">>
         ELSE <<>>

\* faulty variant of imageUrl: an unsupported shape is not detected
imageUrlUnchecked(image) ==
    IF image.kind = "string" THEN <<image.str>>
    ELSE IF image.kind = "object" /\ image.url # <<>> THEN <<image.url[1]>>
    ELSE IF image.kind = "object" /\ image.buffer # <<>>
         THEN <<"data:image/jpeg;base64," \o Base64(image.buffer[1])>>
         ELSE <<"undefined">>

\* the if/else chain that assigns imageUrl; <<>> when the shape is unsupported
imageUrl(image) ==
    IF image.kind = "string" THEN <<image.str>>
    ELSE IF image.kind = "object"
         THEN IF image.url # <<>> THEN <<image.url[1]>>
              ELSE IF image.buffer # <<>>
                   THEN <<"data:image/jpeg;base64," \o Base64(image.buffer[1])>>
                   ELSE <<>>
         ELSE <<>>

\* faulty variant of formattedMessage: the attachment is also appended to a user
\* message that already has array content
formattedMessageMerging(message, image) ==
    IF message.content.kind = "array"
    THEN IF message.role = "system"
         THEN [role |-> "system", content |-> ArrayContent(FilterText(contentParts(message)))]
         ELSE IF message.role = "user"
              THEN [role |-> "user",
                    content |-> ArrayContent(
                        IF TruthyImage(image) /\ imageUrl(image) # <<>>
                        THEN Append(contentParts(message), imageContent(imageUrl(image)[1]))
                        ELSE contentParts(message))]
              ELSE [role |-> "assistant",
                    content |-> ArrayContent(FilterText(contentParts(message)))]
    ELSE IF message.role = "user" /\ TruthyImage(image)
         THEN IF imageUrl(image) = <<>>
              THEN [role |-> "user", content |-> message.content]
              ELSE [role |-> "user",
                    content |-> ArrayContent(<< textContent(message.content.str),
                                                imageContent(imageUrl(image)[1]) >>)]
         ELSE [role |-> "user", content |-> message.content]

\* the callback of options.messages.map
formattedMessage(message, image) ==
    IF message.content.kind = "array"
    THEN IF message.role = "system"
         THEN [role |-> "system", content |-> ArrayContent(FilterText(contentParts(message)))]
         ELSE IF message.role = "user"
              THEN [role |-> "user", content |-> ArrayContent(contentParts(message))]
              ELSE [role |-> "assistant",
                    content |-> ArrayContent(FilterText(contentParts(message)))]
    ELSE IF message.role = "user" /\ TruthyImage(image)
         THEN IF imageUrl(image) = <<>>
              THEN [role |-> "user", content |-> message.content]
              ELSE [role |-> "user",
                    content |-> ArrayContent(<< textContent(IF message.content.kind = "string"
                                                            THEN message.content.str
                                                            ELSE ""),
                                                imageContent(imageUrl(image)[1]) >>)]
         ELSE [role |-> "user", content |-> message.content]

formattedMessages(opts) ==
    [i \in 1..Len(opts.messages) |-> formattedMessage(opts.messages[i], opts.image)]

(***************************************************************************)
(* Request builder: responseFormat, openaiOptions and body                 *)
(***************************************************************************)
\* faulty variant of responseFormat: a JSON directive is attached to every request
responseFormatAlways(opts) ==
    IF opts.response_model # <<>>
    THEN <<[type |-> "json_schema",
            name |-> opts.response_model[1].name,
            schema |-> opts.response_model[1].schema]>>
    ELSE <<[type |-> "json_object", name |-> "", schema |-> ""]>>

\* zodResponseFormat(options.response_model.schema, options.response_model.name)
responseFormat(opts) ==
    IF opts.response_model # <<>>
    THEN <<[type |-> "json_schema",
            name |-> opts.response_model[1].name,
            schema |-> opts.response_model[1].schema]>>
    ELSE <<>>

\* options.tools?.map(tool => ({function: {...}, type: "function"}))
bodyTools(opts) ==
    IF opts.tools = <<>> THEN <<>>
    ELSE <<[i \in 1..Len(opts.tools[1]) |->
              [type |-> "function",
               function |-> [name |-> opts.tools[1][i].name,
                             description |-> opts.tools[1][i].description,
                             parameters |-> opts.tools[1][i].parameters]]]>>

body(opts) ==
    [temperature |-> opts.temperature,
     model |-> modelName,
     messages |-> formattedMessages(opts),
     response_format |-> responseFormat(opts),
     stream |-> FALSE,
     tools |-> bodyTools(opts)]

(***************************************************************************)
(* Response handling: JSON.parse, validateZodSchema, usage                 *)
(***************************************************************************)
JSONUndefined == [type |-> "undefined", isLoggedIn |-> <<>>]
JSONObject(member) == [type |-> "object", isLoggedIn |-> member]
JSONPrimitive(type, lit) == [type |-> type, lit |-> lit]

\* JSON.parse over the payloads of the model: ok = FALSE when it throws SyntaxError
JSONParse(text) ==
    CASE text = "{\"isLoggedIn\": true}" ->
            [ok |-> TRUE, value |-> JSONObject(<<JSONPrimitive("boolean", "true")>>)]
      [] text = "{\"isLoggedIn\": false}" ->
            [ok |-> TRUE, value |-> JSONObject(<<JSONPrimitive("boolean", "false")>>)]
      [] text = "{\"isLoggedIn\": \"yes\"}" ->
            [ok |-> TRUE, value |-> JSONObject(<<JSONPrimitive("string", "yes")>>)]
      [] text = "{}" ->
            [ok |-> TRUE, value |-> JSONObject(<<>>)]
      [] OTHER ->
            [ok |-> FALSE, value |-> JSONUndefined]

\* schema.parse(data) does not throw; the schema is z.object({isLoggedIn: z.boolean()})
validateZodSchema(schema, data) ==
    IF schema = "z.object({isLoggedIn: z.boolean()})" /\ data.type = "object"
    THEN IF data.isLoggedIn = <<>> THEN FALSE ELSE data.isLoggedIn[1].type = "boolean"
    ELSE FALSE

\* faulty variant of NoContent: only a null payload counts as absent
NoContentNullOnly(extractedData) == extractedData = <<>>

\* !extractedData
NoContent(extractedData) == IF extractedData = <<>> THEN TRUE ELSE extractedData[1] = ""

\* response.usage?.<field> ?? 0
usageField(response, field) ==
    IF response.usage = <<>> THEN 0
    ELSE IF field \in DOMAIN response.usage[1] THEN response.usage[1][field] ELSE 0

\* faulty variant of usage: the total is computed instead of read
usageComputedTotal(response) ==
    [prompt_tokens |-> usageField(response, "prompt_tokens"),
     completion_tokens |-> usageField(response, "completion_tokens"),
     total_tokens |-> usageField(response, "prompt_tokens")
                        + usageField(response, "completion_tokens")]

usage(response) ==
    [prompt_tokens |-> usageField(response, "prompt_tokens"),
     completion_tokens |-> usageField(response, "completion_tokens"),
     total_tokens |-> usageField(response, "total_tokens")]

NoUsage == [prompt_tokens |-> 0, completion_tokens |-> 0, total_tokens |-> 0]

\* the data member of the returned object
JsonData(parsedData) == [kind |-> "json", str |-> "", json |-> parsedData]
TextData(content) ==
    IF content = <<>>
    THEN [kind |-> "null", str |-> "", json |-> JSONUndefined]
    ELSE [kind |-> "string", str |-> content[1], json |-> JSONUndefined]

NoError == [name |-> "", message |-> ""]
NoContentError == [name |-> "Error", message |-> "No content in response"]
InvalidSchemaError == [name |-> "Error", message |-> "Invalid response schema"]
JSONSyntaxError == [name |-> "SyntaxError", message |-> "Unexpected token in JSON"]

Pending == [kind |-> "pending", data |-> TextData(<<>>), usage |-> NoUsage, error |-> NoError]
Fulfilled(data, u) == [kind |-> "fulfilled", data |-> data, usage |-> u, error |-> NoError]
Rejected(e) == [kind |-> "rejected", data |-> TextData(<<>>), usage |-> NoUsage, error |-> e]

(***************************************************************************)
(* Inputs: caller options, provider responses, transport errors            *)
(***************************************************************************)
Prompt == "What's in this image?"

InputParts ==
    { [type |-> "image_url", image_url |-> <<[url |-> "https://portal/captcha.png"]>>,
       text |-> <<>>],
      [type |-> "text", image_url |-> <<>>, text |-> <<"Solve the CAPTCHA">>],
      [type |-> "text", image_url |-> <<>>, text |-> <<"">>],
      [type |-> "input_audio", image_url |-> <<>>, text |-> <<>>] }

\* the sum of lens[1..i]
RECURSIVE SumTo(_, _)
SumTo(lens, i) == IF i = 0 THEN 0 ELSE lens[i] + SumTo(lens, i - 1)

\* the number of array parts of a content: len = -1 marks a plain-string content
SizeOf(len) == IF len = -1 THEN 0 ELSE len

\* the message list with the given roles whose array contents are cut, in order,
\* from the part sequence ps: message i takes lens[i] parts
MessageList(roles, lens, ps) ==
    [i \in 1..Len(roles) |->
        [role |-> roles[i],
         content |->
            IF lens[i] = -1 THEN StringContent(Prompt)
            ELSE LET sizes == [j \in 1..Len(lens) |-> SizeOf(lens[j])]
                 IN  ArrayContent(SubSeq(ps, SumTo(sizes, i - 1) + 1, SumTo(sizes, i)))]]

NoImage == [kind |-> "undefined", str |-> "", url |-> <<>>, buffer |-> <<>>]
StringImage(str) == [kind |-> "string", str |-> str, url |-> <<>>, buffer |-> <<>>]
ObjectImage(url, buffer) == [kind |-> "object", str |-> "", url |-> url, buffer |-> buffer]
NumberImage == [kind |-> "number", str |-> "", url |-> <<>>, buffer |-> <<>>]

Images ==
    { NoImage,
      StringImage(""),
      StringImage("https://portal/a.png"),
      ObjectImage(<<"https://portal/b.png">>, <<>>),
      ObjectImage(<<>>, << <<77, 97, 110>> >>),
      ObjectImage(<<>>, << <<255, 216>> >>),
      ObjectImage(<<>>, <<>>),
      NumberImage }

LoggedInModel == [name |-> "LoggedIn", schema |-> "z.object({isLoggedIn: z.boolean()})"]

ClickTool == [name |-> "click", description |-> "click an element", parameters |-> "{}"]

Options(messages, image, response_model, tools) ==
    [messages |-> messages, image |-> image, response_model |-> response_model,
     requestId |-> "req-1", temperature |-> "0.1", tools |-> tools]

\* the calls of the retry model: a plain-string prompt or the CAPTCHA message of
\* recognizeCaptchaWithLLM, with or without attachment, schema and tools
CallMessageLists ==
    { << [role |-> "user", content |-> StringContent(Prompt)] >>,
      << [role |-> "user",
          content |-> ArrayContent(<<
              [type |-> "text", image_url |-> <<>>, text |-> <<"Solve the CAPTCHA">>],
              [type |-> "image_url",
               image_url |-> <<[url |-> "https://portal/captcha.png"]>>, text |-> <<>>] >>)] >> }

CallOptions ==
    { Options(m, i, r, t) :
        m \in CallMessageLists,
        i \in {NoImage, ObjectImage(<<>>, << <<255, 216>> >>)},
        r \in {<<>>, <<LoggedInModel>>},
        t \in {<<>>, << <<ClickTool>> >>} }

Payloads ==
    { <<>>, <<"">>, <<"not json">>, <<"{}">>, <<"{\"isLoggedIn\": \"yes\"}">>,
      <<"{\"isLoggedIn\": true}">>, <<"{\"isLoggedIn\": false}">> }

Usages ==
    { <<>>,
      <<[prompt_tokens |-> 11, completion_tokens |-> 7, total_tokens |-> 18]>>,
      <<[prompt_tokens |-> 5]>> }

\* a ChatCompletion with one choice: choices[0].message.content and usage
Responses == {[content |-> c, usage |-> u] : c \in Payloads, u \in Usages}

TransportErrors ==
    { [name |-> "APIConnectionError", message |-> "Connection error."],
      [name |-> "RateLimitError", message |-> "429 Too Many Requests"] }

\* retries = 3 in the parameter list
DefaultRetries == 3

RetriesArgs == {<<>>} \cup {<<n>> : n \in 0..MaxRetries}

\* faulty variant of retriesParam: no default, an omitted argument gives no retry
retriesParamUnset(arg) == IF arg = <<>> THEN 0 ELSE arg[1]

retriesParam(arg) == IF arg = <<>> THEN DefaultRetries ELSE arg[1]

(***************************************************************************)
(* createChatCompletion                                                    *)
(***************************************************************************)
LogOptions == [message |-> "creating chat completion", auxiliary |-> "options"]
LogOpenaiOptions == [message |-> "creating chat completion", auxiliary |-> "openaiOptions"]
LogResponse == [message |-> "response", auxiliary |-> "response"]

\* faulty variant of CanRetry: the last permitted retry is not made
CanRetryOffByOne(r) == r > 1

\* retries > 0
CanRetry(r) == r > 0

\* the calls and the settlement of createChatCompletion, as events
LoggerEvent(record) == [type |-> "logger", detail |-> record.auxiliary]
CreateEvent == [type |-> "create", detail |-> ""]
SettleEvent(result) ==
    [type |-> IF result.kind = "fulfilled" THEN "return" ELSE "throw", detail |-> ""]

\* the logger calls that extend the log to lg
LoggerEvents(lg) == [i \in 1..(Len(lg) - Len(log)) |-> LoggerEvent(lg[Len(log) + i])]

\* every logger call that extends the log to lg returns
LoggerReturns(lg) == \A i \in (Len(log) + 1)..Len(lg) : lg[i] \notin sink

\* One frame of createChatCompletion from its entry to the await: both logger
\* calls, normalization, the body and client.chat.completions.create(body).
\* lg is the log on entry, r the frame's retries parameter.
Dispatch(lg, r) ==
    /\ LoggerReturns(lg \o <<LogOptions, LogOpenaiOptions>>)
    /\ retries' = r
    /\ log' = lg \o <<LogOptions, LogOpenaiOptions>>
    /\ sent' = Append(sent, body(options))
    /\ events' = events \o LoggerEvents(lg \o <<LogOptions, LogOpenaiOptions>>)
                        \o <<CreateEvent>>
    /\ pc' = "awaiting"
    /\ UNCHANGED <<sink, solver, peer, monitor>>

\* the promise settles: nothing of the call runs afterwards
Settle(lg, result) ==
    /\ LoggerReturns(lg)
    /\ log' = lg
    /\ outcome' = result
    /\ events' = events \o LoggerEvents(lg) \o <<SettleEvent(result)>>
    /\ pc' = "done"
    /\ UNCHANGED <<retries, sent, sink, solver, peer, monitor>>

\* the caller's call createChatCompletion({options, retries, logger})
Call ==
    /\ pc = "start"
    /\ Dispatch(log, retriesParam(retriesArg))
    /\ UNCHANGED <<options, retriesArg, received, rejected, outcome>>

\* faulty variant of TransportReject: a rejected dispatch is retried while budget remains
TransportRejectRetrying ==
    /\ pc = "awaiting"
    /\ \E e \in TransportErrors :
        /\ rejected' = <<e>>
        /\ IF retries > 0
           THEN Dispatch(log, retries - 1) /\ UNCHANGED outcome
           ELSE Settle(log, Rejected(e))
    /\ UNCHANGED <<options, retriesArg, received>>

\* client.chat.completions.create rejects: the await throws
TransportReject ==
    /\ pc = "awaiting"
    /\ \E e \in TransportErrors :
        /\ rejected' = <<e>>
        /\ Settle(log, Rejected(e))
    /\ UNCHANGED <<options, retriesArg, received>>

\* the frame resumes with a response: the response is logged first
Resume(response) ==
    /\ pc = "awaiting"
    /\ received' = Append(received, response)
    /\ UNCHANGED <<options, retriesArg, rejected>>

\* faulty variant of ReturnText: the content check is made before the schema test
ReturnTextChecked ==
    \E response \in Responses :
        /\ Resume(response)
        /\ options.response_model = <<>>
        /\ IF NoContent(response.content)
           THEN Settle(Append(log, LogResponse), Rejected(NoContentError))
           ELSE Settle(Append(log, LogResponse),
                       Fulfilled(TextData(response.content), usage(response)))

\* no response_model: the content is returned as data
ReturnText ==
    \E response \in Responses :
        /\ Resume(response)
        /\ options.response_model = <<>>
        /\ Settle(Append(log, LogResponse),
                  Fulfilled(TextData(response.content), usage(response)))

\* response_model and !extractedData: throw new Error("No content in response")
ThrowNoContent ==
    \E response \in Responses :
        /\ Resume(response)
        /\ options.response_model # <<>>
        /\ NoContent(response.content)
        /\ Settle(Append(log, LogResponse), Rejected(NoContentError))

\* JSON.parse(extractedData) throws: nothing catches it
ThrowSyntaxError ==
    \E response \in Responses :
        /\ Resume(response)
        /\ options.response_model # <<>>
        /\ ~NoContent(response.content)
        /\ ~JSONParse(response.content[1]).ok
        /\ Settle(Append(log, LogResponse), Rejected(JSONSyntaxError))

\* faulty variant of Retry: the failure is reported to the model in an added message
RetryAugmenting ==
    \E response \in Responses :
        /\ Resume(response)
        /\ options.response_model # <<>>
        /\ ~NoContent(response.content)
        /\ JSONParse(response.content[1]).ok
        /\ ~validateZodSchema(options.response_model[1].schema,
                              JSONParse(response.content[1]).value)
        /\ CanRetry(retries)
        /\ retries' = retries - 1
        /\ log' = Append(log, LogResponse) \o <<LogOptions, LogOpenaiOptions>>
        /\ sent' = Append(sent,
                [body(options) EXCEPT !.messages =
                    Append(@, [role |-> "user",
                               content |-> StringContent("Invalid response schema")])])
        /\ events' = events \o <<LoggerEvent(LogResponse), LoggerEvent(LogOptions),
                                  LoggerEvent(LogOpenaiOptions), CreateEvent>>
        /\ pc' = "awaiting"
        /\ UNCHANGED <<outcome, sink, solver, peer, monitor>>

\* faulty variant of Retry: the response is not logged before the retry
RetryUnlogged ==
    \E response \in Responses :
        /\ Resume(response)
        /\ options.response_model # <<>>
        /\ ~NoContent(response.content)
        /\ JSONParse(response.content[1]).ok
        /\ ~validateZodSchema(options.response_model[1].schema,
                              JSONParse(response.content[1]).value)
        /\ CanRetry(retries)
        /\ Dispatch(log, retries - 1)
        /\ UNCHANGED outcome

\* faulty variant of Retry: two resends race for the first valid response
RetryRacing ==
    \E response \in Responses :
        /\ Resume(response)
        /\ options.response_model # <<>>
        /\ ~NoContent(response.content)
        /\ JSONParse(response.content[1]).ok
        /\ ~validateZodSchema(options.response_model[1].schema,
                              JSONParse(response.content[1]).value)
        /\ CanRetry(retries)
        /\ retries' = retries - 1
        /\ log' = Append(log, LogResponse) \o <<LogOptions, LogOpenaiOptions>>
        /\ sent' = sent \o <<body(options), body(options)>>
        /\ events' = events \o <<LoggerEvent(LogResponse), LoggerEvent(LogOptions),
                                  LoggerEvent(LogOpenaiOptions), CreateEvent, CreateEvent>>
        /\ pc' = "awaiting"
        /\ UNCHANGED <<outcome, sink, solver, peer, monitor>>

\* validation fails and retries > 0: return this.createChatCompletion({..., retries - 1}),
\* which runs the new frame up to its await
Retry ==
    \E response \in Responses :
        /\ Resume(response)
        /\ options.response_model # <<>>
        /\ ~NoContent(response.content)
        /\ JSONParse(response.content[1]).ok
        /\ ~validateZodSchema(options.response_model[1].schema,
                              JSONParse(response.content[1]).value)
        /\ CanRetry(retries)
        /\ Dispatch(Append(log, LogResponse), retries - 1)
        /\ UNCHANGED outcome

\* validation fails and retries = 0: throw new Error("Invalid response schema")
ThrowInvalidSchema ==
    \E response \in Responses :
        /\ Resume(response)
        /\ options.response_model # <<>>
        /\ ~NoContent(response.content)
        /\ JSONParse(response.content[1]).ok
        /\ ~validateZodSchema(options.response_model[1].schema,
                              JSONParse(response.content[1]).value)
        /\ ~CanRetry(retries)
        /\ Settle(Append(log, LogResponse), Rejected(InvalidSchemaError))

\* prompt, completion and total tokens summed over a sequence of responses
RECURSIVE usageSum(_)
usageSum(responses) ==
    IF responses = <<>> THEN NoUsage
    ELSE LET u == usage(responses[1])
             rest == usageSum(Tail(responses))
         IN  [prompt_tokens |-> u.prompt_tokens + rest.prompt_tokens,
              completion_tokens |-> u.completion_tokens + rest.completion_tokens,
              total_tokens |-> u.total_tokens + rest.total_tokens]

\* faulty variant of ReturnParsed: usage is accumulated over all attempts
ReturnParsedAccumulating ==
    \E response \in Responses :
        /\ Resume(response)
        /\ options.response_model # <<>>
        /\ ~NoContent(response.content)
        /\ JSONParse(response.content[1]).ok
        /\ validateZodSchema(options.response_model[1].schema,
                             JSONParse(response.content[1]).value)
        /\ Settle(Append(log, LogResponse),
                  Fulfilled(JsonData(JSONParse(response.content[1]).value),
                            usageSum(Append(received, response))))

\* validation succeeds: return {data: parsedData, usage}
ReturnParsed ==
    \E response \in Responses :
        /\ Resume(response)
        /\ options.response_model # <<>>
        /\ ~NoContent(response.content)
        /\ JSONParse(response.content[1]).ok
        /\ validateZodSchema(options.response_model[1].schema,
                             JSONParse(response.content[1]).value)
        /\ Settle(Append(log, LogResponse),
                  Fulfilled(JsonData(JSONParse(response.content[1]).value), usage(response)))

\* a logger that returns on every record
QuietSink == {}

\* solveCaptchaAutomatically is not running
SolverIdle == [pc |-> "idle", error |-> <<>>, prompted |-> 0, typed |-> <<>>, result |-> <<>>]

\* the client before recognizeCaptchaWithLLM has called it
NoCallOptions == Options(<<>>, NoImage, <<>>, <<>>)

\* no second call is made on the client
PeerAbsent ==
    [options |-> NoCallOptions, retriesArg |-> <<>>, retries |-> DefaultRetries,
     pc |-> "idle", sent |-> <<>>, received |-> <<>>, rejected |-> <<>>,
     outcome |-> Pending]

\* monitorCourseAvailability is not running
MonitorOff ==
    [pc |-> "off", iteration |-> 0, checks |-> <<>>, inspected |-> 0,
     deliveries |-> <<>>, announced |-> <<>>, logout |-> FALSE, error |-> <<>>]

\* the state when createChatCompletion({options, retries, logger}) is called
InitFrame(opts, arg) ==
    /\ options = opts
    /\ retriesArg = arg
    /\ retries = retriesParam(arg)
    /\ sent = <<>>
    /\ received = <<>>
    /\ rejected = <<>>
    /\ log = <<>>
    /\ outcome = Pending
    /\ events = <<>>

InitCall(opts, arg) ==
    /\ InitFrame(opts, arg)
    /\ pc = "start"
    /\ sink = QuietSink
    /\ solver = SolverIdle
    /\ peer = PeerAbsent
    /\ monitor = MonitorOff

\* one call with a response schema or without, under every retries argument
Init == \E opts \in CallOptions, arg \in RetriesArgs : InitCall(opts, arg)

Next ==
    \/ Call
    \/ TransportReject
    \/ ReturnText
    \/ ThrowNoContent
    \/ ThrowSyntaxError
    \/ Retry
    \/ ThrowInvalidSchema
    \/ ReturnParsed

Spec == Init /\ [][Next]_vars

\* what a throwing logger throws
SinkError == [name |-> "Error", message |-> "logger failed"]

\* loggers that throw on no record or on one of the three records
Sinks == {QuietSink, {LogOptions}, {LogOpenaiOptions}, {LogResponse}}

\* one of the two logger calls before the dispatch throws: nothing catches it, the
\* call rejects before client.chat.completions.create is reached
LoggerThrowsOnCall ==
    /\ pc = "start"
    /\ {LogOptions, LogOpenaiOptions} \cap sink # {}
    /\ LET handed == IF LogOptions \in sink THEN <<LogOptions>>
                     ELSE <<LogOptions, LogOpenaiOptions>>
       IN  /\ log' = log \o handed
           /\ events' = events \o LoggerEvents(log \o handed)
                               \o <<SettleEvent(Rejected(SinkError))>>
    /\ outcome' = Rejected(SinkError)
    /\ pc' = "done"
    /\ UNCHANGED <<options, retriesArg, retries, sent, received, rejected, sink, solver, peer, monitor>>

\* the logger call after the response throws: the call rejects before the
\* response is looked at
LoggerThrowsOnResponse ==
    \E response \in Responses :
        /\ Resume(response)
        /\ LogResponse \in sink
        /\ log' = Append(log, LogResponse)
        /\ events' = events \o <<LoggerEvent(LogResponse), SettleEvent(Rejected(SinkError))>>
        /\ outcome' = Rejected(SinkError)
        /\ pc' = "done"
        /\ UNCHANGED <<retries, sent, sink, solver, peer, monitor>>

\* one call under every logger
InitSink ==
    \E opts \in CallOptions, arg \in RetriesArgs, k \in Sinks :
        /\ InitFrame(opts, arg)
        /\ pc = "start"
        /\ sink = k
        /\ solver = SolverIdle
        /\ peer = PeerAbsent
        /\ monitor = MonitorOff
    /\ peer = PeerAbsent
    /\ monitor = MonitorOff

NextSink ==
    \/ Call
    \/ TransportReject
    \/ ReturnText
    \/ ThrowNoContent
    \/ ThrowSyntaxError
    \/ Retry
    \/ ThrowInvalidSchema
    \/ ReturnParsed
    \/ LoggerThrowsOnCall
    \/ LoggerThrowsOnResponse

SpecSink == InitSink /\ [][NextSink]_vars

(***************************************************************************)
(* solveCaptchaAutomatically, recognizeCaptchaWithLLM, promptForCaptcha     *)

CaptchaPrompt == "Look at the CAPTCHA image and tell me what characters are shown."

\* the screenshots page.screenshot resolves with
Screenshots == {<<137, 80, 78>>, <<137, 80>>}

\* the rejections of page.evaluate
EvaluateErrors ==
    { [name |-> "Error", message |-> "Execution context was destroyed"],
      [name |-> "Error", message |-> "Target page has been closed"] }

\* the rejections of page.screenshot
ScreenshotErrors ==
    { [name |-> "Error", message |-> "Clipped area is outside the resulting image"],
      [name |-> "TimeoutError", message |-> "Timeout 30000ms exceeded"] }

CaptchaNotFoundError == [name |-> "Error", message |-> "Could not find CAPTCHA image"]

\* the lines typed at the readline prompt
Answers == {"ab12", " ab12 ", "a b", ""}

\* answer.trim()
Trim(answer) ==
    CASE answer = "ab12" -> "ab12"
      [] answer = " ab12 " -> "ab12"
      [] answer = "a b" -> "a b"
      [] answer = "" -> ""

\* text.replace(/[^a-zA-Z0-9]/g, "")
ReplaceNonAlnum(text) ==
    CASE text = "" -> ""
      [] text = "not json" -> "notjson"
      [] text = "{}" -> ""
      [] text = "{\"isLoggedIn\": \"yes\"}" -> "isLoggedInyes"
      [] text = "{\"isLoggedIn\": true}" -> "isLoggedIntrue"
      [] text = "{\"isLoggedIn\": false}" -> "isLoggedInfalse"

\* (response as any).data?.replace(/[^a-zA-Z0-9]/g, "") || ""
RecognizedText(data) ==
    IF data.kind = "string" THEN ReplaceNonAlnum(data.str) ELSE ""

\* the options recognizeCaptchaWithLLM passes to createChatCompletion
RecognizeOptions(imageBuffer) ==
    Options(<< [role |-> "user",
                content |-> ArrayContent(<<
                    [type |-> "text", image_url |-> <<>>, text |-> <<CaptchaPrompt>>],
                    [type |-> "image_url",
                     image_url |-> <<[url |-> "data:image/png;base64,"
                                               \o Base64(imageBuffer)]>>,
                     text |-> <<>>] >>)] >>,
            NoImage, <<>>, <<>>)

ClientUnchanged ==
    UNCHANGED <<options, retriesArg, retries, pc, sent, received, rejected, log,
                outcome, events, sink, peer, monitor>>

\* solveCaptchaAutomatically is called: page.evaluate is awaited inside the try
SolveCaptcha ==
    /\ solver.pc = "idle"
    /\ solver' = [solver EXCEPT !.pc = "evaluating"]
    /\ ClientUnchanged

\* catch (error): the failure is announced and promptForCaptcha is awaited
Catch(error) ==
    solver' = [solver EXCEPT !.pc = "prompting", !.error = <<error>>,
                             !.prompted = @ + 1]

\* page.evaluate resolves: null throws "Could not find CAPTCHA image" into the
\* catch, a bounding box goes on to page.screenshot
EvaluateResolves ==
    /\ solver.pc = "evaluating"
    /\ \E captchaInfo \in {"null", "rect"} :
          IF captchaInfo = "null"
          THEN Catch(CaptchaNotFoundError)
          ELSE solver' = [solver EXCEPT !.pc = "capturing"]
    /\ ClientUnchanged

EvaluateRejects ==
    /\ solver.pc = "evaluating"
    /\ \E e \in EvaluateErrors : Catch(e)
    /\ ClientUnchanged

\* page.screenshot resolves: recognizeCaptchaWithLLM calls createChatCompletion
\* with the screenshot, no retries argument and no response_model
ScreenshotResolves ==
    /\ solver.pc = "capturing"
    /\ pc = "idle"
    /\ \E screenshotBuffer \in Screenshots :
          options' = RecognizeOptions(screenshotBuffer)
    /\ pc' = "start"
    /\ solver' = [solver EXCEPT !.pc = "recognizing"]
    /\ UNCHANGED <<retriesArg, retries, sent, received, rejected, log, outcome,
                   events, sink, peer, monitor>>

ScreenshotRejects ==
    /\ solver.pc = "capturing"
    /\ \E e \in ScreenshotErrors : Catch(e)
    /\ ClientUnchanged

\* the completion call returned: the text is stripped and returned
RecognizeReturns ==
    /\ solver.pc = "recognizing"
    /\ pc = "done"
    /\ outcome.kind = "fulfilled"
    /\ solver' = [solver EXCEPT !.pc = "returned",
                                !.result = <<RecognizedText(outcome.data)>>]
    /\ ClientUnchanged

\* faulty variant of RecognizeThrows: the client's failure leaves the function
RecognizeThrowsPropagating ==
    /\ solver.pc = "recognizing"
    /\ pc = "done"
    /\ outcome.kind = "rejected"
    /\ solver' = [solver EXCEPT !.pc = "threw", !.error = <<outcome.error>>]
    /\ ClientUnchanged

\* the completion call threw: recognizeCaptchaWithLLM rejects into the catch
RecognizeThrows ==
    /\ solver.pc = "recognizing"
    /\ pc = "done"
    /\ outcome.kind = "rejected"
    /\ Catch(outcome.error)
    /\ ClientUnchanged

\* the readline callback: resolve(answer.trim()), returned by the catch block
PromptAnswered ==
    /\ solver.pc = "prompting"
    /\ \E answer \in Answers :
          solver' = [solver EXCEPT !.pc = "returned", !.typed = <<answer>>,
                                   !.result = <<Trim(answer)>>]
    /\ ClientUnchanged

InitCaptcha ==
    /\ InitFrame(NoCallOptions, <<>>)
    /\ pc = "idle"
    /\ sink = QuietSink
    /\ solver = SolverIdle
    /\ peer = PeerAbsent
    /\ monitor = MonitorOff

NextCaptcha ==
    \/ SolveCaptcha
    \/ EvaluateResolves
    \/ EvaluateRejects
    \/ ScreenshotResolves
    \/ ScreenshotRejects
    \/ Call
    \/ TransportReject
    \/ ReturnText
    \/ RecognizeReturns
    \/ RecognizeThrows
    \/ PromptAnswered

SpecCaptcha == InitCaptcha /\ [][NextCaptcha]_vars

(***************************************************************************)
(* Two createChatCompletion calls in flight on one CustomOpenAIClient.      *)
(* The client holds this.client and this.modelName, assigned once by the   *)
(* constructor; everything else is a parameter or a local of the call, so  *)
(* the second call carries its own copy of it in peer. The two calls are   *)
(* given the same logger: log receives the records of both.                *)
(***************************************************************************)
PairUnchanged ==
    UNCHANGED <<options, retriesArg, retries, pc, sent, received, rejected, outcome,
                events, sink, solver, monitor>>

\* the second call runs to its await
PeerCall ==
    /\ peer.pc = "start"
    /\ peer' = [peer EXCEPT !.retries = retriesParam(peer.retriesArg),
                            !.sent = Append(@, body(peer.options)),
                            !.pc = "awaiting"]
    /\ log' = log \o <<LogOptions, LogOpenaiOptions>>
    /\ PairUnchanged

\* the create call of the second call rejects
PeerTransportReject ==
    /\ peer.pc = "awaiting"
    /\ \E e \in TransportErrors :
          peer' = [peer EXCEPT !.rejected = <<e>>, !.outcome = Rejected(e),
                               !.pc = "done"]
    /\ UNCHANGED log
    /\ PairUnchanged

\* the responses the second call is answered with
PeerResponses ==
    {[content |-> c, usage |-> <<>>] :
        c \in {<<>>, <<"not json">>, <<"{}">>, <<"{\"isLoggedIn\": true}">>}}

\* what a frame with the given options returns or throws on a response it does
\* not retry on
PeerSettles(opts, response) ==
    IF opts.response_model = <<>>
    THEN Fulfilled(TextData(response.content), usage(response))
    ELSE IF NoContent(response.content) THEN Rejected(NoContentError)
    ELSE IF ~JSONParse(response.content[1]).ok THEN Rejected(JSONSyntaxError)
    ELSE IF validateZodSchema(opts.response_model[1].schema,
                              JSONParse(response.content[1]).value)
         THEN Fulfilled(JsonData(JSONParse(response.content[1]).value), usage(response))
    ELSE Rejected(InvalidSchemaError)

\* the response fails validation and the frame has budget left
PeerRetries(opts, response, r) ==
    /\ opts.response_model # <<>>
    /\ ~NoContent(response.content)
    /\ JSONParse(response.content[1]).ok
    /\ ~validateZodSchema(opts.response_model[1].schema,
                          JSONParse(response.content[1]).value)
    /\ CanRetry(r)

\* faulty variant of PeerRespond: the budget is kept on the client and shared
PeerRespondSharedBudget ==
    /\ peer.pc = "awaiting"
    /\ \E response \in PeerResponses :
          IF PeerRetries(peer.options, response, peer.retries)
          THEN /\ peer' = [peer EXCEPT !.received = Append(@, response),
                                       !.retries = @ - 1,
                                       !.sent = Append(@, body(peer.options))]
               /\ log' = Append(log, LogResponse) \o <<LogOptions, LogOpenaiOptions>>
               /\ retries' = IF retries > 0 THEN retries - 1 ELSE 0
          ELSE /\ peer' = [peer EXCEPT !.received = Append(@, response),
                                       !.outcome = PeerSettles(peer.options, response),
                                       !.pc = "done"]
               /\ log' = Append(log, LogResponse)
               /\ retries' = retries
    /\ UNCHANGED <<options, retriesArg, pc, sent, received, rejected, outcome,
                   events, sink, solver, monitor>>

\* the second call resumes with a response: it returns, throws, or calls itself
\* with retries - 1 and runs to the next await
PeerRespond ==
    /\ peer.pc = "awaiting"
    /\ \E response \in PeerResponses :
          IF PeerRetries(peer.options, response, peer.retries)
          THEN /\ peer' = [peer EXCEPT !.received = Append(@, response),
                                       !.retries = @ - 1,
                                       !.sent = Append(@, body(peer.options))]
               /\ log' = Append(log, LogResponse) \o <<LogOptions, LogOpenaiOptions>>
          ELSE /\ peer' = [peer EXCEPT !.received = Append(@, response),
                                       !.outcome = PeerSettles(peer.options, response),
                                       !.pc = "done"]
               /\ log' = Append(log, LogResponse)
    /\ PairUnchanged

\* the two callers' options: the prompt, with the login schema or without
PairOptions ==
    { Options(<< [role |-> "user", content |-> StringContent(Prompt)] >>, NoImage, r, <<>>) :
        r \in {<<>>, <<LoggedInModel>>} }

PairRetriesArgs == {<<0>>, <<1>>}

InitPair ==
    \E opts \in PairOptions, arg \in PairRetriesArgs,
       peerOpts \in PairOptions, peerArg \in PairRetriesArgs :
        /\ InitFrame(opts, arg)
        /\ pc = "start"
        /\ sink = QuietSink
        /\ solver = SolverIdle
        /\ monitor = MonitorOff
        /\ peer = [PeerAbsent EXCEPT !.options = peerOpts, !.retriesArg = peerArg,
                                     !.retries = retriesParam(peerArg),
                                     !.pc = "start"]

NextPair ==
    \/ Call
    \/ TransportReject
    \/ ReturnText
    \/ ThrowNoContent
    \/ ThrowSyntaxError
    \/ Retry
    \/ ThrowInvalidSchema
    \/ ReturnParsed
    \/ PeerCall
    \/ PeerTransportReject
    \/ PeerRespond

SpecPair == InitPair /\ [][NextPair]_vars

(***************************************************************************)
(* monitorCourseAvailability (src/index.ts): the while (true) loop, one     *)
(* check iteration per pass. An action is the code from the resumption of  *)
(* one await to the next await. monitor.pc names the await the loop is     *)
(* suspended at.                                                           *)
(***************************************************************************)
\* iterations of the loop that are explored
MaxIterations == 2

emailAddresses == <<"sarthakkapila1@gmail.com", "ekomsaidha1@gmail.com">>

\* what page.goto, page.act, page.waitForTimeout, page.extract and page.evaluate
\* reject with
PageClosedError ==
    [name |-> "Error", message |-> "Target page, context or browser has been closed"]

LoginFailedError ==
    [name |-> "Error",
     message |-> "Login failed after manual CAPTCHA. Please check credentials or CAPTCHA."]

\* what fetch and res.json() reject with
FetchError == [name |-> "TypeError", message |-> "fetch failed"]

\* the awaits of page.goto, page.act and page.waitForTimeout that stand directly
\* in the outer try, each followed by the await it leads to
PageSteps ==
    {"goto", "actLoginWith", "waitLoginWith", "actUsername", "waitUsername",
     "actPassword", "waitPassword", "actCaptcha", "waitCaptcha", "actLogin",
     "waitLogin", "actCaptchaManual", "waitCaptchaManual", "actAddDrop",
     "waitAddDrop", "actClickHere", "waitClickHere"}

AfterStep(step) ==
    CASE step = "goto" -> "actLoginWith"
      [] step = "actLoginWith" -> "waitLoginWith"
      [] step = "waitLoginWith" -> "actUsername"
      [] step = "actUsername" -> "waitUsername"
      [] step = "waitUsername" -> "actPassword"
      [] step = "actPassword" -> "waitPassword"
      [] step = "waitPassword" -> "captcha"
      [] step = "actCaptcha" -> "waitCaptcha"
      [] step = "waitCaptcha" -> "actLogin"
      [] step = "actLogin" -> "waitLogin"
      [] step = "waitLogin" -> "extract"
      [] step = "actCaptchaManual" -> "waitCaptchaManual"
      [] step = "waitCaptchaManual" -> "extractManual"
      [] step = "actAddDrop" -> "waitAddDrop"
      [] step = "waitAddDrop" -> "actClickHere"
      [] step = "actClickHere" -> "waitClickHere"
      [] step = "waitClickHere" -> "evaluateCS6701"

\* the loop top: a new iteration runs to await page.goto(PEC_URL)
BeginIteration(m) ==
    [pc |-> "goto", iteration |-> m.iteration + 1, checks |-> <<>>, inspected |-> 0,
     deliveries |-> <<>>, announced |-> <<>>, logout |-> FALSE, error |-> <<>>]

\* the outer catch (error): announce, then await page.waitForTimeout(60000)
OuterCatch(m, error) == [m EXCEPT !.pc = "retryWait", !.error = <<error>>]

\* the locals of a finished createChatCompletion call are gone
FrameReleased ==
    /\ options' = NoCallOptions
    /\ retriesArg' = <<>>
    /\ retries' = DefaultRetries
    /\ pc' = "idle"
    /\ sent' = <<>>
    /\ received' = <<>>
    /\ rejected' = <<>>
    /\ log' = <<>>
    /\ outcome' = Pending
    /\ events' = <<>>

FrameUnchanged ==
    UNCHANGED <<options, retriesArg, retries, pc, sent, received, rejected, log,
                outcome, events, sink, peer>>

\* run() calls monitorCourseAvailability
MonitorStarts ==
    /\ monitor.pc = "off"
    /\ monitor' = BeginIteration(monitor)
    /\ UNCHANGED solver
    /\ FrameUnchanged

\* a page.goto, page.act or page.waitForTimeout of the outer try resolves; the
\* one before the CAPTCHA calls solveCaptchaAutomatically, which runs to its
\* await page.evaluate
PageStepResolves ==
    /\ monitor.pc \in PageSteps
    /\ monitor' = [monitor EXCEPT !.pc = AfterStep(monitor.pc)]
    /\ solver' = IF AfterStep(monitor.pc) = "captcha"
                 THEN [SolverIdle EXCEPT !.pc = "evaluating"]
                 ELSE solver
    /\ FrameUnchanged

\* an await standing directly in the outer try rejects
TryStepRejects ==
    /\ monitor.pc \in PageSteps \cup {"extract", "extractManual", "evaluateCS6701",
                                      "evaluateAll", "interval"}
    /\ monitor' = OuterCatch(monitor, PageClosedError)
    /\ UNCHANGED solver
    /\ FrameUnchanged

\* solveCaptchaAutomatically returned: the text is typed into the CAPTCHA field
CaptchaReturns ==
    /\ monitor.pc = "captcha"
    /\ solver.pc = "returned"
    /\ monitor' = [monitor EXCEPT !.pc = "actCaptcha"]
    /\ solver' = SolverIdle
    /\ FrameReleased
    /\ UNCHANGED <<sink, peer>>

\* page.extract resolves with { isLoggedIn }: false asks for the CAPTCHA by hand
ExtractResolves ==
    /\ monitor.pc = "extract"
    /\ \E isLoggedIn \in BOOLEAN :
          monitor' = [monitor EXCEPT !.checks = Append(@, isLoggedIn),
                                     !.pc = IF isLoggedIn THEN "actAddDrop" ELSE "prompt"]
    /\ UNCHANGED solver
    /\ FrameUnchanged

\* promptForCaptcha resolves: the answer is typed into the CAPTCHA field
ManualCaptchaEntered ==
    /\ monitor.pc = "prompt"
    /\ monitor' = [monitor EXCEPT !.pc = "actCaptchaManual"]
    /\ UNCHANGED solver
    /\ FrameUnchanged

\* faulty variant of ExtractManualResolves: the second check is not looked at
ExtractManualResolvesUnchecked ==
    /\ monitor.pc = "extractManual"
    /\ \E isLoggedInManual \in BOOLEAN :
          monitor' = [monitor EXCEPT !.checks = Append(@, isLoggedInManual),
                                     !.pc = "actAddDrop"]
    /\ UNCHANGED solver
    /\ FrameUnchanged

\* the second page.extract resolves: false throws "Login failed after manual
\* CAPTCHA" into the outer catch
ExtractManualResolves ==
    /\ monitor.pc = "extractManual"
    /\ \E isLoggedInManual \in BOOLEAN :
          monitor' = IF isLoggedInManual
                     THEN [monitor EXCEPT !.checks = Append(@, TRUE),
                                          !.pc = "actAddDrop"]
                     ELSE OuterCatch([monitor EXCEPT !.checks = Append(@, FALSE)],
                                     LoginFailedError)
    /\ UNCHANGED solver
    /\ FrameUnchanged

\* the page.evaluate for CS6701 resolves
EvaluateCS6701Resolves ==
    /\ monitor.pc = "evaluateCS6701"
    /\ monitor' = [monitor EXCEPT !.inspected = @ + 1, !.pc = "evaluateAll"]
    /\ UNCHANGED solver
    /\ FrameUnchanged

\* sendEmail is called for the next address and awaits fetch
Deliver(m) ==
    [m EXCEPT !.deliveries = Append(@, [to |-> emailAddresses[Len(@) + 1],
                                        result |-> "pending"]),
              !.pc = "fetch"]

\* the next pass of the for loop, or after it the logout: await page.act(...)
NextAddress(m) ==
    IF Len(m.deliveries) < Len(emailAddresses)
    THEN Deliver(m)
    ELSE [m EXCEPT !.logout = TRUE, !.pc = "logout"]

\* the page.evaluate for all courses resolves: the summary is built and the
\* first delivery starts
EvaluateAllResolves ==
    /\ monitor.pc = "evaluateAll"
    /\ monitor' = Deliver([monitor EXCEPT !.inspected = @ + 1])
    /\ UNCHANGED solver
    /\ FrameUnchanged

Delivered(m, result) == [m EXCEPT !.deliveries[Len(m.deliveries)].result = result]

Announced(m, text) ==
    [m EXCEPT !.announced = Append(@, [to |-> m.deliveries[Len(m.deliveries)].to,
                                       text |-> text])]

\* fetch resolves: res.ok awaits res.json(); otherwise sendEmail returns null and
\* the loop announces "Email summary sent to"
FetchResolves ==
    /\ monitor.pc = "fetch"
    /\ \E ok \in BOOLEAN :
          monitor' = IF ok
                     THEN [Delivered(monitor, "ok") EXCEPT !.pc = "json"]
                     ELSE NextAddress(Announced(Delivered(monitor, "not ok"),
                                                "Email summary sent to"))
    /\ UNCHANGED solver
    /\ FrameUnchanged

\* faulty variant of SendEmailRejects: the failure leaves the for loop
SendEmailRejectsAborting ==
    /\ monitor.pc \in {"fetch", "json"}
    /\ monitor' = OuterCatch(IF monitor.pc = "fetch"
                             THEN Delivered(monitor, "rejected")
                             ELSE monitor,
                             FetchError)
    /\ UNCHANGED solver
    /\ FrameUnchanged

\* fetch or res.json() rejects: the inner catch announces the failure and the for
\* loop goes on
SendEmailRejects ==
    /\ monitor.pc \in {"fetch", "json"}
    /\ monitor' = NextAddress(Announced(IF monitor.pc = "fetch"
                                        THEN Delivered(monitor, "rejected")
                                        ELSE monitor,
                                        "Failed to send email summary to"))
    /\ UNCHANGED solver
    /\ FrameUnchanged

\* res.json() resolves: sendEmail returns data
JsonResolves ==
    /\ monitor.pc = "json"
    /\ monitor' = NextAddress(Announced(monitor, "Email summary sent to"))
    /\ UNCHANGED solver
    /\ FrameUnchanged

\* the logout click, then its wait, resolve
LogoutStepResolves ==
    /\ monitor.pc \in {"logout", "waitLogout"}
    /\ monitor' = [monitor EXCEPT !.pc = IF @ = "logout" THEN "waitLogout"
                                         ELSE "interval"]
    /\ UNCHANGED solver
    /\ FrameUnchanged

\* the logout click or its wait rejects: caught, "continuing anyway"
LogoutStepRejects ==
    /\ monitor.pc \in {"logout", "waitLogout"}
    /\ monitor' = [monitor EXCEPT !.pc = "interval"]
    /\ UNCHANGED solver
    /\ FrameUnchanged

\* page.waitForTimeout(CHECK_INTERVAL_MS) or the wait of the catch resolves
WaitResolves ==
    /\ monitor.pc \in {"interval", "retryWait"}
    /\ monitor.iteration < MaxIterations
    /\ monitor' = BeginIteration(monitor)
    /\ UNCHANGED solver
    /\ FrameUnchanged

\* page.waitForTimeout(60000) inside the catch rejects: nothing catches it
RetryWaitRejects ==
    /\ monitor.pc = "retryWait"
    /\ monitor' = [monitor EXCEPT !.pc = "threw", !.error = <<PageClosedError>>]
    /\ UNCHANGED solver
    /\ FrameUnchanged

InitMonitor ==
    /\ InitFrame(NoCallOptions, <<>>)
    /\ pc = "idle"
    /\ sink = QuietSink
    /\ solver = SolverIdle
    /\ peer = PeerAbsent
    /\ monitor = MonitorOff

NextMonitor ==
    \/ MonitorStarts
    \/ PageStepResolves
    \/ TryStepRejects
    \/ EvaluateResolves
    \/ EvaluateRejects
    \/ ScreenshotResolves
    \/ ScreenshotRejects
    \/ Call
    \/ TransportReject
    \/ ReturnText
    \/ RecognizeReturns
    \/ RecognizeThrows
    \/ PromptAnswered
    \/ CaptchaReturns
    \/ ExtractResolves
    \/ ManualCaptchaEntered
    \/ ExtractManualResolves
    \/ EvaluateCS6701Resolves
    \/ EvaluateAllResolves
    \/ FetchResolves
    \/ SendEmailRejects
    \/ JsonResolves
    \/ LogoutStepResolves
    \/ LogoutStepRejects
    \/ WaitResolves
    \/ RetryWaitRejects

SpecMonitor == InitMonitor /\ [][NextMonitor]_vars

\* the retry controller when every dispatch is eventually answered or rejected
SpecLive == Spec /\ WF_vars(Next)

\* the normalizer over every attachment and every message list of at most
\* MaxMessages messages holding at most MaxParts array parts in total
InitNorm ==
    \E n \in 0..MaxMessages :
        \E roles \in [1..n -> Roles], lens \in [1..n -> -1..MaxParts] :
            LET sizes == [j \in 1..n |-> SizeOf(lens[j])]
            IN  /\ SumTo(sizes, n) <= MaxParts
                /\ \E ps \in [1..SumTo(sizes, n) -> InputParts], i \in Images :
                      InitCall(Options(MessageList(roles, lens, ps), i, <<>>, <<>>), <<0>>)

NextNorm == Call

SpecNorm == InitNorm /\ [][NextNorm]_vars

TypeOK ==
    /\ pc \in {"idle", "start", "awaiting", "done"}
    /\ retries \in 0..(MaxRetries + DefaultRetries)
    /\ outcome.kind \in {"pending", "fulfilled", "rejected"}
    /\ Len(received) <= Len(sent)

(***************************************************************************)
(* Properties                                                              *)
(***************************************************************************)
SchemaRequested == options.response_model # <<>>

\* N: the retry budget of the call
Budget == IF retriesArg = <<>> THEN 3 ELSE retriesArg[1]

EmptyPayload(r) == r.content \in {<<>>, <<"">>}

PayloadText(r) == IF r.content = <<>> THEN "" ELSE r.content[1]

\* the payload is not empty and is not JSON
Unparsable(r) == ~EmptyPayload(r) /\ ~JSONParse(PayloadText(r)).ok

\* the payload parses and the parsed value does not satisfy / satisfies the schema
FailsValidation(r) ==
    /\ ~EmptyPayload(r)
    /\ JSONParse(PayloadText(r)).ok
    /\ ~validateZodSchema(options.response_model[1].schema, JSONParse(PayloadText(r)).value)

Validates(r) ==
    /\ ~EmptyPayload(r)
    /\ JSONParse(PayloadText(r)).ok
    /\ validateZodSchema(options.response_model[1].schema, JSONParse(PayloadText(r)).value)

AllFailValidation(n) == \A i \in 1..n : FailsValidation(received[i])

IsInvalidSchema(o) ==
    o.kind = "rejected" /\ o.error.name = "Error" /\ o.error.message = "Invalid response schema"

IsEmptyResponse(o) ==
    o.kind = "rejected" /\ o.error.name = "Error" /\ o.error.message = "No content in response"

IsTransportFailure(o) ==
    o.kind = "rejected" /\ rejected # <<>> /\ o.error = rejected[1]

\* the call is over and every dispatch of it was answered with a response
Answered == pc = "done" /\ rejected = <<>> /\ Len(received) = Len(sent)

\* C1: with a schema requested and every response a non-empty payload that fails
\* validation, a finished call made exactly N + 1 dispatches and failed with
\* "Invalid response schema"
RetryBound ==
    (SchemaRequested /\ Answered /\ AllFailValidation(Len(received)))
        => (Len(sent) = Budget + 1 /\ IsInvalidSchema(outcome))

RetryBoundWitness ==
    /\ SchemaRequested /\ Answered /\ AllFailValidation(Len(received))
    /\ retriesArg = <<2>>
    /\ Len(sent) = 3
    /\ IsInvalidSchema(outcome)

\* C2: with a schema requested, a response with an absent or empty payload is the
\* last one: the call is over with "No content in response" and no dispatch
\* follows it, whatever budget remains
NoRetryOnEmpty ==
    SchemaRequested =>
        \A i \in 1..Len(received) :
            EmptyPayload(received[i]) =>
                /\ i = Len(received)
                /\ Len(sent) = i
                /\ pc = "done"
                /\ IsEmptyResponse(outcome)

NoRetryOnEmptyWitness ==
    /\ SchemaRequested
    /\ Len(received) = 2
    /\ received[2].content = <<"">>
    /\ retries >= 1
    /\ Len(sent) = 2
    /\ IsEmptyResponse(outcome)

\* C3 (as claimed): a call whose last response was a non-empty unparsable payload
\* ended like one whose last response failed validation: with the budget used up
\* and "Invalid response schema"
ParseFailureIsSchemaMismatch ==
    (SchemaRequested /\ pc = "done" /\ received # <<>> /\ Unparsable(Last(received)))
        => (retries = 0 /\ IsInvalidSchema(outcome))

\* C4: when the first k responses fail validation and response k + 1 validates, the
\* call is over after k + 1 dispatches with the parsed value of response k + 1 as
\* data and the usage of response k + 1 alone
LastAttemptOnly ==
    (/\ SchemaRequested
     /\ received # <<>>
     /\ AllFailValidation(Len(received) - 1)
     /\ Validates(Last(received)))
        => /\ pc = "done"
           /\ Len(sent) = Len(received)
           /\ outcome.kind = "fulfilled"
           /\ outcome.data.kind = "json"
           /\ outcome.data.json = JSONParse(PayloadText(Last(received))).value
           /\ \A f \in {"prompt_tokens", "completion_tokens", "total_tokens"} :
                outcome.usage[f] =
                    IF Last(received).usage = <<>> THEN 0
                    ELSE IF f \in DOMAIN Last(received).usage[1]
                         THEN Last(received).usage[1][f] ELSE 0

LastAttemptOnlyWitness ==
    /\ SchemaRequested
    /\ Len(received) = 3
    /\ AllFailValidation(2)
    /\ received[1].usage # <<>>
    /\ received[2].usage # <<>>
    /\ Last(received) = [content |-> <<"{\"isLoggedIn\": false}">>,
                         usage |-> <<[prompt_tokens |-> 5]>>]
    /\ Len(sent) = 3
    /\ outcome.kind = "fulfilled"
    /\ outcome.usage = [prompt_tokens |-> 5, completion_tokens |-> 0, total_tokens |-> 0]

\* C5: without a schema, a call that received a response is over after one
\* dispatch and returned the payload unchanged, whatever the payload and budget
NoSchemaReturnsText ==
    (~SchemaRequested /\ received # <<>>)
        => /\ pc = "done"
           /\ Len(sent) = 1
           /\ Len(received) = 1
           /\ outcome.kind = "fulfilled"
           /\ IF received[1].content = <<>>
              THEN outcome.data.kind = "null"
              ELSE outcome.data.kind = "string" /\ outcome.data.str = received[1].content[1]

NoSchemaReturnsTextWitness ==
    /\ ~SchemaRequested
    /\ Budget >= 1
    /\ received # <<>>
    /\ received[1].content = <<"">>
    /\ outcome.kind = "fulfilled"
    /\ outcome.data.kind = "string"
    /\ outcome.data.str = ""

\* C6: a rejected dispatch ends the call with the rejection itself and no further
\* dispatch; every dispatch after the first follows a response that failed
\* validation, and the budget went down by one per such dispatch only
TransportFailurePropagates ==
    /\ rejected # <<>> =>
          /\ pc = "done"
          /\ outcome.kind = "rejected"
          /\ outcome.error = rejected[1]
          /\ Len(sent) = Len(received) + 1
    /\ sent # <<>> =>
          /\ retries = Budget - (Len(sent) - 1)
          /\ \A i \in 1..(Len(sent) - 1) : SchemaRequested /\ FailsValidation(received[i])

TransportFailurePropagatesWitness ==
    /\ rejected # <<>>
    /\ SchemaRequested
    /\ Len(sent) = 2
    /\ retries >= 1
    /\ pc = "done"
    /\ outcome.error = rejected[1]

\* C7 (as claimed): a finished call ended with an envelope, "No content in
\* response", "Invalid response schema" or the transport's rejection
FourOutcomes ==
    pc = "done" =>
        \/ outcome.kind = "fulfilled"
        \/ IsEmptyResponse(outcome)
        \/ IsInvalidSchema(outcome)
        \/ IsTransportFailure(outcome)

IsImagePart(part) == part.type = "image_url" \/ part.image_url # <<>>

\* C8: in the dispatched request, a system or assistant message with array content
\* has no image part; a user message with array content has as many parts as the
\* input, and each image part of the input is an image part with the same url
RolesCarryNoImage ==
    sent # <<>> =>
        \A i \in 1..Len(options.messages) :
            LET input == options.messages[i]
                output == sent[1].messages[i]
            IN  input.content.kind = "array" =>
                    /\ output.content.kind = "array"
                    /\ input.role \in {"system", "assistant"} =>
                          \A j \in 1..Len(output.content.parts) :
                              ~IsImagePart(output.content.parts[j])
                    /\ input.role = "user" =>
                          /\ Len(output.content.parts) = Len(input.content.parts)
                          /\ \A j \in 1..Len(input.content.parts) :
                                input.content.parts[j].image_url # <<>> =>
                                    /\ output.content.parts[j].type = "image_url"
                                    /\ output.content.parts[j].image_url
                                           = input.content.parts[j].image_url

RolesCarryNoImageWitness ==
    /\ sent # <<>>
    /\ Len(options.messages) = 2
    /\ options.messages[1].role = "system"
    /\ options.messages[1].content.kind = "array"
    /\ Len(options.messages[1].content.parts) = 1
    /\ options.messages[1].content.parts[1].image_url # <<>>
    /\ sent[1].messages[1].content.parts = <<>>
    /\ options.messages[2].role = "user"
    /\ options.messages[2].content.kind = "array"
    /\ Len(options.messages[2].content.parts) = 1
    /\ options.messages[2].content.parts[1].image_url # <<>>
    /\ sent[1].messages[2].content.parts[1].type = "image_url"

\* an attachment of one of the three shapes: a URL string, {url} or {buffer}
IsAttachment(image) ==
    \/ image.kind = "string" /\ image.str # ""
    \/ image.kind = "object" /\ (image.url # <<>> \/ image.buffer # <<>>)

\* the url the attachments of the model resolve to
ResolvedUrl(image) ==
    IF image.kind = "string" THEN image.str
    ELSE IF image.url # <<>> THEN image.url[1]
    ELSE IF image.buffer = << <<77, 97, 110>> >> THEN "data:image/jpeg;base64,TWFu"
    ELSE IF image.buffer = << <<255, 216>> >> THEN "data:image/jpeg;base64,/9g="
    ELSE "?"

\* C9: a plain-string user message with an attachment present is dispatched with
\* exactly two parts: the text part with the original string, then the image
\* part with the resolved url
TextThenImage ==
    (sent # <<>> /\ IsAttachment(options.image)) =>
        \A i \in 1..Len(options.messages) :
            LET input == options.messages[i]
                output == sent[1].messages[i]
            IN  (input.role = "user" /\ input.content.kind = "string") =>
                    /\ output.role = "user"
                    /\ output.content.kind = "array"
                    /\ Len(output.content.parts) = 2
                    /\ output.content.parts[1].type = "text"
                    /\ output.content.parts[1].text = <<input.content.str>>
                    /\ output.content.parts[1].image_url = <<>>
                    /\ output.content.parts[2].type = "image_url"
                    /\ output.content.parts[2].image_url = <<[url |-> ResolvedUrl(options.image)]>>

TextThenImageWitness ==
    /\ sent # <<>>
    /\ options.image.buffer = << <<255, 216>> >>
    /\ Len(options.messages) >= 1
    /\ options.messages[1].role = "user"
    /\ options.messages[1].content.kind = "string"
    /\ sent[1].messages[1].content.parts[2].image_url
           = <<[url |-> "data:image/jpeg;base64,/9g="]>>

\* C10: a message with array content is dispatched as it would be without any
\* attachment: no part is added for the attachment
AttachmentIgnoredForArrays ==
    sent # <<>> =>
        \A i \in 1..Len(options.messages) :
            LET input == options.messages[i]
                output == sent[1].messages[i]
            IN  input.content.kind = "array" =>
                    /\ output = formattedMessage(input, NoImage)
                    /\ Len(output.content.parts) <= Len(input.content.parts)

AttachmentIgnoredForArraysWitness ==
    /\ sent # <<>>
    /\ IsAttachment(options.image)
    /\ \E i \in 1..Len(options.messages) :
          /\ options.messages[i].role = "user"
          /\ options.messages[i].content.kind = "array"
          /\ Len(options.messages[i].content.parts) = 2
          /\ sent[1].messages[i].content.parts = contentParts(options.messages[i])

\* the messages of the dispatched request into which the attachment was merged:
\* plain-string messages sent with array content
Merged == {i \in 1..Len(options.messages) :
              /\ options.messages[i].content.kind = "string"
              /\ sent[1].messages[i].content.kind = "array"}

PlainUserMessages == {i \in 1..Len(options.messages) :
                         /\ options.messages[i].role = "user"
                         /\ options.messages[i].content.kind = "string"}

\* C11 (as claimed): in the dispatched request the attachment is merged into at
\* most one message, the first plain-string user message
AttachmentMergedOnce ==
    (sent # <<>> /\ IsAttachment(options.image)) =>
        /\ Cardinality(Merged) <= 1
        /\ \A i \in Merged : i \in PlainUserMessages /\ \A j \in PlainUserMessages : i <= j

\* C12: a user message with array content is dispatched with one part per input
\* part, in place: the image part for an image shape, the text part for a text
\* shape, the empty text part for any other part
PartsKeepTheirSlots ==
    sent # <<>> =>
        \A i \in 1..Len(options.messages) :
            LET input == options.messages[i]
                output == sent[1].messages[i]
            IN  (input.role = "user" /\ input.content.kind = "array") =>
                    /\ Len(output.content.parts) = Len(input.content.parts)
                    /\ \A j \in 1..Len(input.content.parts) :
                          LET in == input.content.parts[j]
                              out == output.content.parts[j]
                          IN  IF in.image_url # <<>>
                              THEN /\ out.type = "image_url"
                                   /\ out.image_url = <<[url |-> in.image_url[1].url]>>
                                   /\ out.text = <<>>
                              ELSE IF in.text \notin {<<>>, <<"">>}
                              THEN /\ out.type = "text"
                                   /\ out.text = in.text
                                   /\ out.image_url = <<>>
                              ELSE /\ out.type = "text"
                                   /\ out.text = <<"">>
                                   /\ out.image_url = <<>>

PartsKeepTheirSlotsWitness ==
    /\ pc = "awaiting"
    /\ Len(options.messages) = 1
    /\ options.messages[1].role = "user"
    /\ options.messages[1].content.kind = "array"
    /\ Len(options.messages[1].content.parts) = 2
    /\ options.messages[1].content.parts[1].type = "input_audio"
    /\ options.messages[1].content.parts[2].image_url # <<>>
    /\ sent[1].messages[1].content.parts[1] = [type |-> "text", image_url |-> <<>>, text |-> <<"">>]
    /\ sent[1].messages[1].content.parts[2].type = "image_url"

\* an attachment that is neither a string, nor an object with a url, nor an
\* object with a buffer
IsUnsupported(image) ==
    \/ image.kind = "number"
    \/ image.kind = "object" /\ image.url = <<>> /\ image.buffer = <<>>

\* C13: with an attachment of unsupported shape the call is dispatched without
\* error and every plain-string user message is sent with its original string only
UnsupportedAttachmentPassesThrough ==
    IsUnsupported(options.image) =>
        /\ pc = "start" => ENABLED Call
        /\ pc # "start" =>
              /\ Len(sent) = 1
              /\ outcome.kind # "rejected"
              /\ \A i \in PlainUserMessages :
                    /\ sent[1].messages[i].role = "user"
                    /\ sent[1].messages[i].content.kind = "string"
                    /\ sent[1].messages[i].content.str = options.messages[i].content.str
                    /\ sent[1].messages[i].content.parts = <<>>

UnsupportedAttachmentPassesThroughWitness ==
    /\ options.image.kind = "object"
    /\ options.image.url = <<>>
    /\ options.image.buffer = <<>>
    /\ pc = "awaiting"
    /\ PlainUserMessages # {}
    /\ \A i \in PlainUserMessages : sent[1].messages[i].content.kind = "string"

\* C14: normalizing a dispatched array-content message again gives the same message
NormalizationIdempotent ==
    sent # <<>> =>
        \A i \in 1..Len(options.messages) :
            options.messages[i].content.kind = "array" =>
                formattedMessage(sent[1].messages[i], options.image) = sent[1].messages[i]

NormalizationIdempotentWitness ==
    /\ sent # <<>>
    /\ IsAttachment(options.image)
    /\ Len(options.messages) = 2
    /\ options.messages[1].role = "assistant"
    /\ options.messages[1].content.kind = "array"
    /\ options.messages[2].role = "user"
    /\ options.messages[2].content.kind = "array"
    /\ Len(options.messages[2].content.parts) = 2
    /\ options.messages[2].content.parts[1].image_url # <<>>
    /\ options.messages[2].content.parts[2].type = "input_audio"
    /\ sent[1].messages[2] # options.messages[2]
    /\ formattedMessage(sent[1].messages[2], options.image) = sent[1].messages[2]

UsageFields == {"prompt_tokens", "completion_tokens", "total_tokens"}

\* C15: every dispatched request carries a response-format directive, named by
\* the schema, exactly when the caller supplied a schema; an answered call
\* validated its last response exactly when the directive was attached
DirectiveIffSchema ==
    /\ \A k \in 1..Len(sent) :
          /\ (sent[k].response_format # <<>>) <=> (options.response_model # <<>>)
          /\ sent[k].response_format # <<>> =>
                /\ sent[k].response_format[1].name = options.response_model[1].name
                /\ sent[k].response_format[1].schema = options.response_model[1].schema
    /\ (Answered /\ received # <<>>) =>
          IF Last(sent).response_format = <<>>
          THEN outcome.kind = "fulfilled" /\ outcome.data.kind \in {"string", "null"}
          ELSE /\ outcome.kind = "fulfilled" <=> Validates(Last(received))
               /\ outcome.kind = "fulfilled" => outcome.data.kind = "json"

DirectiveIffSchemaWitness ==
    /\ Answered
    /\ Len(sent) = 2
    /\ sent[1].response_format # <<>>
    /\ sent[2].response_format # <<>>
    /\ sent[2].response_format[1].name = "LoggedIn"
    /\ outcome.kind = "fulfilled"
    /\ outcome.data.kind = "json"

\* C16: all dispatches of a call carry the same body, the caller's options never
\* change, and the budget changes only with a new dispatch after the first, by -1
VerbatimResend ==
    /\ [](\A k \in 1..Len(sent) : sent[k] = sent[1])
    /\ [][/\ options' = options
          /\ (sent # <<>> /\ Len(sent') = Len(sent) + 1) => retries' = retries - 1
          /\ (sent = <<>> \/ Len(sent') = Len(sent)) => retries' = retries]_vars

VerbatimResendWitness ==
    /\ Len(sent) = 3
    /\ sent[3] = sent[1]
    /\ sent[2] = sent[1]
    /\ retries = Budget - 2
    /\ options.image.buffer # <<>>
    /\ options.messages[1].content.kind = "string"
    /\ Len(sent[3].messages[1].content.parts) = 2
    /\ options.tools # <<>>

\* C19: a returned envelope has the three usage fields; each is the provider's
\* value of the last response, or 0 when the field or the usage record is missing
UsageDefaultsToZero ==
    outcome.kind = "fulfilled" =>
        /\ DOMAIN outcome.usage = UsageFields
        /\ \A f \in UsageFields :
              outcome.usage[f] =
                  IF Last(received).usage = <<>> THEN 0
                  ELSE IF f \in DOMAIN Last(received).usage[1]
                       THEN Last(received).usage[1][f]
                       ELSE 0

UsageDefaultsToZeroWitness ==
    /\ ~SchemaRequested
    /\ outcome.kind = "fulfilled"
    /\ Last(received).usage = <<[prompt_tokens |-> 5]>>
    /\ outcome.usage = [prompt_tokens |-> 5, completion_tokens |-> 0, total_tokens |-> 0]

\* C17: attempt k logs the options and the openaiOptions, then dispatches; when its
\* response is received the next event is the logging of the response, before the
\* return, the throw or the next attempt; when its dispatch is rejected the throw
\* follows the dispatch with no logging in between
TwoLoggingPoints ==
    /\ Len(log) = 2 * Len(sent) + Len(received)
    /\ \A k \in 1..Len(sent) :
          /\ Len(events) >= 4 * k - 1
          /\ events[4 * k - 3] = [type |-> "logger", detail |-> "options"]
          /\ events[4 * k - 2] = [type |-> "logger", detail |-> "openaiOptions"]
          /\ events[4 * k - 1] = [type |-> "create", detail |-> ""]
          /\ k <= Len(received) =>
                /\ Len(events) >= 4 * k + 1
                /\ events[4 * k] = [type |-> "logger", detail |-> "response"]
                /\ (k = Len(sent)) => (events[4 * k + 1].type \in {"return", "throw"})
          /\ k > Len(received) =>
                IF rejected # <<>>
                THEN Len(events) = 4 * k /\ events[4 * k].type = "throw"
                ELSE Len(events) = 4 * k - 1

TwoLoggingPointsWitness ==
    /\ rejected # <<>>
    /\ Len(sent) = 2
    /\ Len(received) = 1
    /\ Len(events) = 8
    /\ events[4].detail = "response"
    /\ events[7].type = "create"
    /\ events[8].type = "throw"

\* what the frame holding budget r settles with on a response under a logger that
\* returns; Pending when it does not settle but retries
QuietOutcome(response, r) ==
    IF options.response_model = <<>>
    THEN Fulfilled(TextData(response.content), usage(response))
    ELSE IF NoContent(response.content) THEN Rejected(NoContentError)
    ELSE IF ~JSONParse(response.content[1]).ok THEN Rejected(JSONSyntaxError)
    ELSE IF validateZodSchema(options.response_model[1].schema,
                              JSONParse(response.content[1]).value)
         THEN Fulfilled(JsonData(JSONParse(response.content[1]).value), usage(response))
    ELSE IF r > 0 THEN Pending
    ELSE Rejected(InvalidSchemaError)

\* C18 (as claimed): whatever the logger does, a finished call made the dispatches
\* and has the outcome it has under a logger that returns: at least one dispatch,
\* and, when every dispatch was answered, the outcome decided by the last response
LoggingNeverAffectsControlFlow ==
    pc = "done" =>
        /\ Len(sent) >= 1
        /\ rejected = <<>> =>
              /\ received # <<>>
              /\ outcome = QuietOutcome(Last(received), retries)

\* C20: solveCaptchaAutomatically never ends by throwing; once a step of the
\* automatic recognition has failed it is at the manual prompt or has returned,
\* it prompted exactly once, and what it returns is the typed line, trimmed
ManualFallback ==
    /\ solver.pc # "threw"
    /\ solver.error # <<>> =>
          /\ solver.pc \in {"prompting", "returned"}
          /\ solver.prompted = 1
          /\ solver.pc = "returned" =>
                /\ solver.typed # <<>>
                /\ solver.result = <<Trim(solver.typed[1])>>
    /\ (solver.pc = "returned" /\ solver.error = <<>>) =>
          /\ solver.prompted = 0
          /\ outcome.kind = "fulfilled"

ManualFallbackWitness ==
    /\ solver.pc = "returned"
    /\ rejected # <<>>
    /\ solver.error = rejected
    /\ Len(sent) = 1
    /\ solver.typed = <<" ab12 ">>
    /\ solver.result = <<"ab12">>

\* dispatches of the call neither answered nor rejected
Outstanding == Len(sent) - Len(received) - Len(rejected)

\* C22: at most one dispatch is outstanding and at most N + 1 are made; dispatch
\* k + 1 is made only after response k was received and failed validation; the call
\* is over as soon as no dispatch is outstanding, and when every dispatch is
\* answered it ends
SequentialBoundedRetry ==
    /\ [](/\ Outstanding \in {0, 1}
          /\ Len(sent) <= Budget + 1
          /\ \A k \in 2..Len(sent) :
                /\ k - 1 <= Len(received)
                /\ FailsValidation(received[k - 1])
          /\ (pc = "awaiting") <=> (Outstanding = 1)
          /\ (Len(sent) >= 1 /\ Outstanding = 0) => pc = "done")
    /\ <>(pc = "done")

SequentialBoundedRetryWitness ==
    /\ pc = "done"
    /\ retriesArg = <<2>>
    /\ Len(sent) = 3
    /\ Len(received) = 2
    /\ rejected # <<>>

\* C24 (as claimed): in the dispatched request, message i has the role of input
\* message i
RolesPreserved ==
    sent # <<>> =>
        \A i \in 1..Len(options.messages) :
            sent[1].messages[i].role = options.messages[i].role

\* C25: with no retries argument, a schema, and every response failing validation,
\* the call is not over before the fourth response, never makes a fifth dispatch,
\* and ends on the fourth response with "Invalid response schema"
DefaultBudgetIsThree ==
    (retriesArg = <<>> /\ SchemaRequested /\ rejected = <<>>
        /\ AllFailValidation(Len(received)))
    => /\ Len(sent) <= 4
       /\ Len(received) < 4 => pc # "done"
       /\ Len(received) = 4 =>
             /\ pc = "done"
             /\ Len(sent) = 4
             /\ outcome.kind = "rejected"
             /\ outcome.error = [name |-> "Error", message |-> "Invalid response schema"]

DefaultBudgetIsThreeWitness ==
    /\ retriesArg = <<>>
    /\ SchemaRequested
    /\ Len(received) = 4
    /\ AllFailValidation(4)
    /\ Len(sent) = 4
    /\ pc = "done"
    /\ IsInvalidSchema(outcome)

\* the dispatches made, the budget left and the outcome of a call that runs alone
\* with the given options and budget r, has made dispatch k, and is answered with
\* responses[k..] and then, if rejection is not empty, rejected
RECURSIVE Alone(_, _, _, _, _)
Alone(opts, r, responses, rejection, k) ==
    IF k > Len(responses)
    THEN [dispatches |-> k, retries |-> r,
          outcome |-> IF rejection = <<>> THEN Pending ELSE Rejected(rejection[1])]
    ELSE LET response == responses[k]
             text == IF response.content = <<>> THEN "" ELSE response.content[1]
             settled(o) == [dispatches |-> k, retries |-> r, outcome |-> o]
         IN  IF opts.response_model = <<>>
             THEN settled(Fulfilled(TextData(response.content), usage(response)))
             ELSE IF text = ""
                  THEN settled(Rejected(NoContentError))
             ELSE IF ~JSONParse(text).ok
                  THEN settled(Rejected(JSONSyntaxError))
             ELSE IF validateZodSchema(opts.response_model[1].schema, JSONParse(text).value)
                  THEN settled(Fulfilled(JsonData(JSONParse(text).value), usage(response)))
             ELSE IF r > 0
                  THEN Alone(opts, r - 1, responses, rejection, k + 1)
             ELSE settled(Rejected(InvalidSchemaError))

BudgetOf(arg) == IF arg = <<>> THEN 3 ELSE arg[1]

\* C23: in every state of every interleaving, each of the two calls has made the
\* dispatches, holds the budget and has the outcome that its own options, budget
\* and responses give when it runs alone
CallsDoNotInterfere ==
    /\ pc = "start" => (sent = <<>> /\ outcome = Pending)
    /\ pc # "start" =>
          /\ [dispatches |-> Len(sent), retries |-> retries, outcome |-> outcome]
                = Alone(options, BudgetOf(retriesArg), received, rejected, 1)
          /\ \A k \in 1..Len(sent) : sent[k] = body(options)
    /\ peer.pc = "start" => (peer.sent = <<>> /\ peer.outcome = Pending)
    /\ peer.pc \in {"awaiting", "done"} =>
          /\ [dispatches |-> Len(peer.sent), retries |-> peer.retries,
              outcome |-> peer.outcome]
                = Alone(peer.options, BudgetOf(peer.retriesArg), peer.received,
                        peer.rejected, 1)
          /\ \A k \in 1..Len(peer.sent) : peer.sent[k] = body(peer.options)

CallsDoNotInterfereWitness ==
    /\ pc = "done"
    /\ peer.pc = "done"
    /\ Len(sent) = 2
    /\ Len(peer.sent) = 2
    /\ retries = 0
    /\ outcome.kind = "fulfilled"
    /\ peer.outcome.kind = "rejected"
    /\ Len(log) = 12

\* C21 (as claimed): monitorCourseAvailability never ends, by a return or by an
\* error leaving it
MonitorNeverStops == monitor.pc \notin {"threw", "returned"}

\* the iteration is past the login checks
PastLogin ==
    \/ monitor.inspected > 0
    \/ monitor.deliveries # <<>>
    \/ monitor.logout
    \/ monitor.pc \in {"actAddDrop", "waitAddDrop", "actClickHere", "waitClickHere",
                       "evaluateCS6701", "evaluateAll", "fetch", "json", "logout",
                       "waitLogout", "interval"}

\* C26: at most two login checks are made in an iteration, the second only after
\* the first reported not logged in; the iteration is past the login checks only
\* if its last check reported success; after two failed checks the iteration is in
\* the error handler with the login error, no course inspected, no delivery begun
LoginGatesInspection ==
    /\ Len(monitor.checks) <= 2
    /\ Len(monitor.checks) = 2 => monitor.checks[1] = FALSE
    /\ PastLogin =>
          /\ monitor.checks # <<>>
          /\ monitor.checks[Len(monitor.checks)] = TRUE
    /\ monitor.checks = <<FALSE, FALSE>> =>
          /\ monitor.pc \in {"retryWait", "threw"}
          /\ monitor.pc = "retryWait" =>
                monitor.error = <<[name |-> "Error",
                                   message |-> "Login failed after manual CAPTCHA. Please check credentials or CAPTCHA."]>>
          /\ monitor.inspected = 0
          /\ monitor.deliveries = <<>>
          /\ monitor.announced = <<>>

LoginGatesInspectionWitness ==
    /\ monitor.checks = <<FALSE, TRUE>>
    /\ monitor.inspected = 2
    /\ Len(monitor.deliveries) = 2
    /\ monitor.pc = "interval"

\* C27: deliveries are attempted to the first address, then to the second; after
\* the first attempt, whatever its result, the iteration is still delivering; an
\* iteration that got past the e-mail loop attempted both, and it is in the error
\* handler only if the wait for the next check failed
BothAddressesAttempted ==
    /\ Len(monitor.deliveries) <= 2
    /\ Len(monitor.deliveries) >= 1 =>
          monitor.deliveries[1].to = "sarthakkapila1@gmail.com"
    /\ Len(monitor.deliveries) = 2 =>
          /\ monitor.deliveries[2].to = "ekomsaidha1@gmail.com"
          /\ monitor.deliveries[1].result # "pending"
    /\ Len(monitor.deliveries) = 1 => monitor.pc \in {"fetch", "json"}
    /\ monitor.pc \in {"logout", "waitLogout", "interval"} =>
          /\ Len(monitor.deliveries) = 2
          /\ monitor.error = <<>>
    /\ (monitor.deliveries # <<>> /\ monitor.pc = "retryWait") => monitor.logout

BothAddressesAttemptedWitness ==
    /\ monitor.pc = "interval"
    /\ Len(monitor.deliveries) = 2
    /\ monitor.deliveries[1].result = "rejected"
    /\ monitor.deliveries[2].result = "ok"
    /\ monitor.error = <<>>

\* C28 (as claimed): "Email summary sent to <address>" is announced only for an
\* address whose delivery the mail service answered with an OK status
SentOnlyIfDelivered ==
    \A i \in 1..Len(monitor.announced) :
        monitor.announced[i].text = "Email summary sent to" =>
            \E j \in 1..Len(monitor.deliveries) :
                /\ monitor.deliveries[j].to = monitor.announced[i].to
                /\ monitor.deliveries[j].result = "ok"

\* C29 (as claimed): an iteration in which a login check reported success is at
\* the wait that precedes the next iteration only after a logout was attempted
LogoutBeforeNextIteration ==
    (/\ monitor.pc \in {"interval", "retryWait"}
     /\ \E i \in 1..Len(monitor.checks) : monitor.checks[i])
        => monitor.logout

====
